---- MODULE Spec2Model ----
(***************************************************************************)
(* DataCanvas: schema normaliser (data/cleaning.py), column role          *)
(* classifier (data/inference.py) and KPI calculator (analytics/kpis.py), *)
(* and the chart builders (visualization/charts.py), driven in the order  *)
(* of app.py main().                                                      *)
(*                                                                         *)
(* A table is [rows |-> n, cols |-> <<column, ...>>]; a column is          *)
(* [name |-> <<char, ...>>, type |-> dtype, cells |-> <<cell, ...>>].      *)
(* A cell is a pair <<tag, payload>>:                                      *)
(*   <<"na", 0>>    missing (NaN / None / NaT)                             *)
(*   <<"num", n>>   number n                                               *)
(*   <<"bool", b>>  b = 1 for True, 0 for False                            *)
(*   <<"ts", d>>    timestamp at midnight of day d, day 0 = Mon 2024-01-01 *)
(*   <<"iso", d>>   the string "YYYY-MM-DD" of day d                       *)
(*   <<"amb", k>>   the k-th string "xx/yy/2024" with xx, yy <= 12, xx#yy  *)
(*   <<"junk", i>>  the i-th string that is not a date                     *)
(* Column names are sequences of one-character strings.                    *)
(***************************************************************************)
EXTENDS Integers, Sequences, FiniteSets, TLC

VARIABLES pc, raw, df, date_col, metric_col, category_col, kpis, fig_trend, fig_cat

vars == <<pc, raw, df, date_col, metric_col, category_col, kpis, fig_trend, fig_cat>>

(* ---------------------------------------------------------------------- *)
(* Bounds of the model                                                     *)
(* ---------------------------------------------------------------------- *)
MaxRows == 3

MaxNameLen == 4

MaxTrendRows == 11

(* ---------------------------------------------------------------------- *)
(* Values                                                                  *)
(* ---------------------------------------------------------------------- *)
Missing == <<"na", 0>>

None == <<"None">>

NoTable == [rows |-> 0, cols |-> <<>>]

Whitespace == {" ", "\t"}

IsMissing(c) == c[1] = "na"

notna(cells) == {i \in 1..Len(cells) : ~IsMissing(cells[i])}

Count(cells) == Cardinality(notna(cells))

dropna(cells) == LET Present(c) == ~IsMissing(c) IN SelectSeq(cells, Present)

head(s, n) == IF Len(s) <= n THEN s ELSE SubSeq(s, 1, n)

(* ---------------------------------------------------------------------- *)
(* Column-name normalisation                                               *)
(* ---------------------------------------------------------------------- *)
RECURSIVE lstrip(_)
lstrip(s) ==
    IF s # <<>> /\ Head(s) \in Whitespace THEN lstrip(Tail(s)) ELSE s

RECURSIVE rstrip(_)
rstrip(s) ==
    IF s # <<>> /\ s[Len(s)] \in Whitespace
    THEN rstrip(SubSeq(s, 1, Len(s) - 1)) ELSE s

strip(s) == rstrip(lstrip(s))

(* re.sub(r"\s+", " ", s): every maximal run of whitespace becomes " " *)
RECURSIVE collapse(_)
collapse(s) ==
    IF s = <<>> THEN <<>>
    ELSE IF Head(s) \in Whitespace
         THEN <<" ">> \o collapse(lstrip(s))
         ELSE <<Head(s)>> \o collapse(Tail(s))

(* variant: the pattern \s instead of \s+, one space per character *)
NormalizeName_PerChar(s) ==
    LET t == strip(s)
    IN  [i \in 1..Len(t) |-> IF t[i] \in Whitespace THEN " " ELSE t[i]]

NormalizeName(s) == collapse(strip(s))

(* ---------------------------------------------------------------------- *)
(* pd.to_datetime on a column of strings, the two strategies (pandas 2,    *)
(* where format="mixed" exists).  Both read an ISO string the same way;    *)
(* they differ on "01/02/2024", and a guessed format rejects the strings   *)
(* of any other format.  Rates are exact fractions, not doubles.           *)
(* ---------------------------------------------------------------------- *)
(* the k-th ambiguous string: 1 = "01/02/2024", 2 = "02/01/2024" *)
AmbMonthFirst(k) == IF k = 1 THEN 1 ELSE 31

AmbDayFirst(k) == IF k = 1 THEN 31 ELSE 1

(* Strategy 1: format="mixed" parses each element on its own, month first *)
ParseMixed(c) ==
    CASE c[1] = "iso" -> <<"ts", c[2]>>
      [] c[1] = "amb" -> <<"ts", AmbMonthFirst(c[2])>>
      [] OTHER        -> Missing

(* Strategy 2: dayfirst=True guesses one format from the first non-missing *)
(* element and parses every element with it; when no format can be guessed *)
(* each element is parsed on its own, day first.                           *)
GuessFormat(cells) ==
    LET nn == dropna(cells)
    IN  IF nn = <<>> THEN "none"
        ELSE CASE nn[1][1] = "iso" -> "ymd"
               [] nn[1][1] = "amb" -> "dmy"
               [] OTHER            -> "none"

ParseDayfirstCell(fmt, c) ==
    CASE c[1] = "iso" /\ fmt \in {"ymd", "none"} -> <<"ts", c[2]>>
      [] c[1] = "amb" /\ fmt \in {"dmy", "none"} -> <<"ts", AmbDayFirst(c[2])>>
      [] OTHER                                   -> Missing

ToDatetimeMixed(cells) == [i \in 1..Len(cells) |-> ParseMixed(cells[i])]

ToDatetimeDayfirst(cells) ==
    [i \in 1..Len(cells) |-> ParseDayfirstCell(GuessFormat(cells), cells[i])]

(* ---------------------------------------------------------------------- *)
(* clean_dataframe                                                         *)
(* ---------------------------------------------------------------------- *)
SampleSize == 100

(* sample = out[col].dropna().astype(str).head(100) *)
Sample(col) == head(dropna(col.cells), SampleSize)

(* best_parsed / best_success_rate after the two strategies ran on the     *)
(* sample; rates are counts over Len(sample), compared as fractions        *)
BestOnSample(col) ==
    LET sample == Sample(col)
        n      == Len(sample)
        cnt1   == Count(ToDatetimeMixed(sample))
        best1  == IF cnt1 > 0 THEN [strategy |-> "mixed", cnt |-> cnt1]
                  ELSE [strategy |-> "none", cnt |-> 0]
        cnt2   == Count(ToDatetimeDayfirst(sample))
    IN  IF 10 * best1.cnt < 8 * n /\ cnt2 > best1.cnt
        THEN [strategy |-> "dayfirst", cnt |-> cnt2]
        ELSE best1

(* variant: no threshold on the success rate *)
Converts_NoThreshold(col) ==
    /\ col.type = "text"
    /\ Sample(col) # <<>>

(* variant: more than half instead of at least half *)
Converts_Strict(col) ==
    /\ col.type = "text"
    /\ Sample(col) # <<>>
    /\ 2 * BestOnSample(col).cnt > Len(Sample(col))
    /\ BestOnSample(col).strategy # "none"

(* the column is replaced when best_success_rate >= 0.5 *)
Converts(col) ==
    /\ col.type = "text"
    /\ Sample(col) # <<>>
    /\ 2 * BestOnSample(col).cnt >= Len(Sample(col))
    /\ BestOnSample(col).strategy # "none"

(* which call produces parsed_full: format="mixed" on the whole column,    *)
(* replaced by dayfirst=True when its rate over ALL rows is below          *)
(* best_success_rate - 0.1                                                 *)
FullStrategy(col) ==
    LET n    == Len(Sample(col))
        rows == Len(col.cells)
        full == Count(ToDatetimeMixed(col.cells))
    IN  IF 10 * full * n < 10 * BestOnSample(col).cnt * rows - rows * n
        THEN "dayfirst" ELSE "mixed"

ParsedFull(col) ==
    IF FullStrategy(col) = "dayfirst" THEN ToDatetimeDayfirst(col.cells)
    ELSE ToDatetimeMixed(col.cells)

CleanColumn(col) ==
    IF Converts(col)
    THEN [name |-> col.name, type |-> "temporal", cells |-> ParsedFull(col)]
    ELSE col

Renamed(t) ==
    [i \in 1..Len(t.cols) |->
        [name |-> NormalizeName(t.cols[i].name), type |-> t.cols[i].type,
         cells |-> t.cols[i].cells]]

(* dropna(axis=1, how="all") keeps the columns with a non-missing cell *)
IsEmptyColumn(col) == Count(col.cells) = 0

(* variant: how="any" *)
DropEmpty_Any(cols) ==
    LET Keep(c) == Count(c.cells) = Len(c.cells) IN SelectSeq(cols, Keep)

DropEmpty(cols) ==
    LET Keep(c) == ~IsEmptyColumn(c) IN SelectSeq(cols, Keep)

HasDuplicateNames(cols) ==
    \E i, j \in 1..Len(cols) : i < j /\ cols[i].name = cols[j].name

(* out[col] is a DataFrame when the label is not unique, and .dtype raises *)
CleanRaises(t) == HasDuplicateNames(DropEmpty(Renamed(t)))

clean_dataframe(t) ==
    LET out == DropEmpty(Renamed(t))
    IN  [rows |-> t.rows, cols |-> [i \in 1..Len(out) |-> CleanColumn(out[i])]]

(* ---------------------------------------------------------------------- *)
(* sorted(cols, key=score, reverse=True)[0]                                *)
(*                                                                         *)
(* list.sort for fewer than 64 items: reverse the list, find the leading   *)
(* run, binary-insert the rest with the comparison "pivot < item", and     *)
(* reverse again.  lt[i][j] is "key of item i < key of item j" for the     *)
(* items 1..n in list order.                                               *)
(* ---------------------------------------------------------------------- *)
Reverse(s) == [i \in 1..Len(s) |-> s[Len(s) + 1 - i]]

RECURSIVE CountRun(_, _, _, _)
CountRun(s, i, desc, lt) ==
    IF i > Len(s) THEN Len(s)
    ELSE IF lt[s[i]][s[i - 1]] = desc THEN CountRun(s, i + 1, desc, lt)
    ELSE i - 1

RECURSIVE BinaryPos(_, _, _, _, _)
BinaryPos(s, pivot, l, r, lt) ==
    IF l >= r THEN l
    ELSE LET p == l + ((r - l) \div 2)
         IN  IF lt[pivot][s[p + 1]] THEN BinaryPos(s, pivot, l, p, lt)
             ELSE BinaryPos(s, pivot, p + 1, r, lt)

RECURSIVE BinarySort(_, _, _)
BinarySort(s, start, lt) ==
    IF start >= Len(s) THEN s
    ELSE LET pivot == s[start + 1]
             l     == BinaryPos(s, pivot, 0, start, lt)
             t     == SubSeq(s, 1, l) \o <<pivot>> \o SubSeq(s, l + 1, start)
                      \o SubSeq(s, start + 2, Len(s))
         IN  BinarySort(t, start + 1, lt)

ListSort(s, lt) ==
    IF Len(s) < 2 THEN s
    ELSE LET desc == lt[s[2]][s[1]]
             n    == CountRun(s, 3, desc, lt)
             run  == IF desc
                     THEN Reverse(SubSeq(s, 1, n)) \o SubSeq(s, n + 1, Len(s))
                     ELSE s
         IN  BinarySort(run, n, lt)

SortedReverse(n, lt) ==
    Reverse(ListSort(Reverse([i \in 1..n |-> i]), lt))

(* the positions i, in order, with is[i] true: [c for c in df.columns if ...] *)
Positions(is) ==
    LET Test(i) == is[i] IN SelectSeq([i \in 1..Len(is) |-> i], Test)

(* ---------------------------------------------------------------------- *)
(* infer_date_column                                                       *)
(* ---------------------------------------------------------------------- *)
IsDatetime(col) == col.type = "temporal"

(* variant: sorted ascending, last item taken *)
infer_date_column_Ascending(t) ==
    LET date_cols == Positions([i \in 1..Len(t.cols) |-> IsDatetime(t.cols[i])])
        key(i)    == Count(t.cols[date_cols[i]].cells)
        n         == Len(date_cols)
        lt        == [i \in 1..n |-> [j \in 1..n |-> key(i) < key(j)]]
    IN  IF n = 0 THEN None
        ELSE t.cols[date_cols[ListSort([i \in 1..n |-> i], lt)[n]]].name

infer_date_column(t) ==
    LET date_cols == Positions([i \in 1..Len(t.cols) |-> IsDatetime(t.cols[i])])
        key(i)    == Count(t.cols[date_cols[i]].cells)
        n         == Len(date_cols)
        lt        == [i \in 1..n |-> [j \in 1..n |-> key(i) < key(j)]]
    IN  IF n = 0 THEN None
        ELSE t.cols[date_cols[SortedReverse(n, lt)[1]]].name

(* ---------------------------------------------------------------------- *)
(* infer_metric_column                                                     *)
(* ---------------------------------------------------------------------- *)
(* variant: every dtype but object counts as numeric *)
is_numeric_dtype_NotObject(col) == col.type # "text"

(* pd.api.types.is_numeric_dtype is true of int, float and bool dtypes *)
is_numeric_dtype(col) == col.type \in {"numeric", "boolean"}

Lower(ch) ==
    CASE ch = "I" -> "i"
      [] ch = "D" -> "d"
      [] ch = "Z" -> "z"
      [] ch = "P" -> "p"
      [] OTHER    -> ch

lower(name) == [i \in 1..Len(name) |-> Lower(name[i])]

Contains(pat, name) ==
    \E i \in 0..(Len(name) - Len(pat)) : SubSeq(name, i + 1, i + Len(pat)) = pat

(* variant: the name is not lower-cased *)
NamePenalty_CaseSensitive(col) ==
    IF \/ Contains(<<"i", "d">>, col.name)
       \/ Contains(<<"p", "o", "s", "t", "c", "o", "d", "e">>, col.name)
       \/ Contains(<<"z", "i", "p">>, col.name)
    THEN 0 - 2 ELSE 0

NamePenalty(col) ==
    IF \/ Contains(<<"i", "d">>, lower(col.name))
       \/ Contains(<<"p", "o", "s", "t", "c", "o", "d", "e">>, lower(col.name))
       \/ Contains(<<"z", "i", "p">>, lower(col.name))
    THEN 0 - 2 ELSE 0

RECURSIVE SumSeq(_)
SumSeq(s) == IF s = <<>> THEN 0 ELSE Head(s) + SumSeq(Tail(s))

(* the non-missing values of a numeric or boolean column, as numbers *)
Values(cells) == LET nn == dropna(cells) IN [i \in 1..Len(nn) |-> nn[i][2]]

(* Series.var(skipna=True): NaN below two values, else                     *)
(* (n * sum(x^2) - sum(x)^2) / (n * (n - 1)), kept as an exact fraction    *)
Var(cells) ==
    LET x  == Values(cells)
        n  == Len(x)
        sq == [i \in 1..n |-> x[i] * x[i]]
    IN  IF n < 2 THEN [nan |-> TRUE, num |-> 0, den |-> 1]
        ELSE [nan |-> FALSE, num |-> n * SumSeq(sq) - SumSeq(x) * SumSeq(x),
              den |-> n * (n - 1)]

(* float(var or 0.0): only a falsy var (0.0) is replaced; NaN is truthy *)
VarOrZero(v) ==
    IF ~v.nan /\ v.num = 0 THEN [nan |-> FALSE, num |-> 0, den |-> 1] ELSE v

FloatLT(a, b) == ~a.nan /\ ~b.nan /\ a.num * b.den < b.num * a.den

FloatEQ(a, b) == ~a.nan /\ ~b.nan /\ a.num * b.den = b.num * a.den

MetricScore(col) ==
    <<NamePenalty(col) + Count(col.cells), VarOrZero(Var(col.cells))>>

(* tuple comparison: the first differing item decides *)
MetricScoreLT(a, b) ==
    IF a[1] # b[1] THEN a[1] < b[1]
    ELSE IF FloatEQ(a[2], b[2]) THEN FALSE
    ELSE FloatLT(a[2], b[2])

infer_metric_column(t) ==
    LET num_cols == Positions([i \in 1..Len(t.cols) |-> is_numeric_dtype(t.cols[i])])
        key(i)   == MetricScore(t.cols[num_cols[i]])
        n        == Len(num_cols)
        lt       == [i \in 1..n |-> [j \in 1..n |-> MetricScoreLT(key(i), key(j))]]
    IN  IF n = 0 THEN None
        ELSE t.cols[num_cols[SortedReverse(n, lt)[1]]].name

(* ---------------------------------------------------------------------- *)
(* infer_category_column                                                   *)
(* ---------------------------------------------------------------------- *)
IsObject(col) == col.type = "text"

Abs(x) == IF x < 0 THEN 0 - x ELSE x

nunique(cells) == Cardinality({cells[i] : i \in notna(cells)})

(* nunique > max(50, len(df) * 0.3) *)
TooManyValues(nu, rows) == nu > 50 /\ 10 * nu > 3 * rows

(* variant: the distance to 10 without abs() *)
CategoryScore_Signed(col, rows) ==
    LET nu == nunique(col.cells)
    IN  <<(0 - (nu - 10)) - (IF TooManyValues(nu, rows) THEN 50 ELSE 0),
          Count(col.cells)>>

CategoryScore(col, rows) ==
    LET nu == nunique(col.cells)
    IN  <<(0 - Abs(nu - 10)) - (IF TooManyValues(nu, rows) THEN 50 ELSE 0),
          Count(col.cells)>>

CategoryScoreLT(a, b) == IF a[1] # b[1] THEN a[1] < b[1] ELSE a[2] < b[2]

infer_category_column(t) ==
    LET obj_cols == Positions([i \in 1..Len(t.cols) |-> IsObject(t.cols[i])])
        key(i)   == CategoryScore(t.cols[obj_cols[i]], t.rows)
        n        == Len(obj_cols)
        lt       == [i \in 1..n |-> [j \in 1..n |-> CategoryScoreLT(key(i), key(j))]]
    IN  IF n = 0 THEN None
        ELSE t.cols[obj_cols[SortedReverse(n, lt)[1]]].name

(* ---------------------------------------------------------------------- *)
(* compute_kpis                                                            *)
(* ---------------------------------------------------------------------- *)
(* "if date_col:" - None and the empty string are falsy *)
Truthy(name) == name # None /\ name # <<>>

(* df[name]; names are unique in a table that clean_dataframe returned *)
Column(t, name) ==
    t.cols[CHOOSE i \in 1..Len(t.cols) : t.cols[i].name = name]

Min(S) == CHOOSE x \in S : \A y \in S : x <= y

Max(S) == CHOOSE x \in S : \A y \in S : x >= y

(* round(num / den) to the nearest integer, ties to even; den > 0 *)
RoundHalfEven(num, den) ==
    LET q == num \div den
        r == num % den
    IN  IF 2 * r < den THEN q
        ELSE IF 2 * r > den THEN q + 1
        ELSE IF q % 2 = 0 THEN q ELSE q + 1

(* f"{n:,}" *)
FmtCount(n) == [fmt |-> ",d", n |-> n, m |-> 0]

(* f"{x:,.2f}" of x = num / den, in hundredths *)
FmtFixed2(num, den) ==
    [fmt |-> ",.2f", n |-> RoundHalfEven(100 * num, den), m |-> 0]

(* f"{dmin.date()} -> {dmax.date()}" *)
FmtRange(dmin, dmax) == [fmt |-> "range", n |-> dmin, m |-> dmax]

(* f"{pct:+.1f}%" of pct = num / den * 100, in signed tenths *)
FmtPct(num, den) ==
    [fmt |-> IF num < 0 THEN "-.1f%" ELSE "+.1f%",
     n   |-> RoundHalfEven(1000 * Abs(num), den), m |-> 0]

Dash == [fmt |-> "dash", n |-> 0, m |-> 0]

(* first days of the months January..July 2024 *)
MonthStarts == <<0, 31, 60, 91, 121, 152, 182>>

MonthIndex(d) == Cardinality({i \in 1..Len(MonthStarts) : MonthStarts[i] <= d})

(* the label of the bin that resample(freq) puts day d in.  "MS": the      *)
(* first day of d's month.  "W-MON": weeks END on Monday (bins are closed  *)
(* and labelled on the right), so the label is the first Monday >= d.      *)
BinLabel(freq, d) ==
    IF freq = "MS" THEN MonthStarts[MonthIndex(d)]
    ELSE d + ((7 - (d % 7)) % 7)

(* tmp = df[[date_col, metric_col]].dropna(): the rows with both values *)
JointRows(t, d, m) ==
    {i \in 1..t.rows : ~IsMissing(Column(t, d).cells[i])
                       /\ ~IsMissing(Column(t, m).cells[i])}

Freq(t, d, m) ==
    LET days == {Column(t, d).cells[i][2] : i \in JointRows(t, d, m)}
    IN  IF Max(days) - Min(days) >= 60 THEN "MS" ELSE "W-MON"

(* every bin label from the first row's bin to the last row's bin *)
NextLabel(freq, l) ==
    IF freq = "MS" THEN MonthStarts[MonthIndex(l) + 1] ELSE l + 7

RECURSIVE LabelsFrom(_, _, _)
LabelsFrom(freq, l, last) ==
    IF l > last THEN <<>>
    ELSE <<l>> \o LabelsFrom(freq, NextLabel(freq, l), last)

RECURSIVE SumSet(_, _)
SumSet(S, f) ==
    IF S = {} THEN 0
    ELSE LET x == CHOOSE y \in S : TRUE IN f[x] + SumSet(S \ {x}, f)

(* variant: grouped by period, a period without rows gets no entry *)
Resample_GroupBy(t, d, m) ==
    LET rows   == JointRows(t, d, m)
        freq   == Freq(t, d, m)
        day    == [i \in rows |-> Column(t, d).cells[i][2]]
        val    == [i \in rows |-> Column(t, m).cells[i][2]]
        all    == LabelsFrom(freq,
                             BinLabel(freq, Min({day[i] : i \in rows})),
                             BinLabel(freq, Max({day[i] : i \in rows})))
        Used(l) == \E i \in rows : BinLabel(freq, day[i]) = l
        labels == SelectSeq(all, Used)
    IN  [k \in 1..Len(labels) |->
            [start |-> labels[k],
             sum   |-> SumSet({i \in rows : BinLabel(freq, day[i]) = labels[k]},
                               val)]]

(* series = tmp.set_index(date_col)[metric_col].resample(freq).sum() *)
Resample(t, d, m) ==
    LET rows   == JointRows(t, d, m)
        freq   == Freq(t, d, m)
        day    == [i \in rows |-> Column(t, d).cells[i][2]]
        val    == [i \in rows |-> Column(t, m).cells[i][2]]
        labels == LabelsFrom(freq,
                             BinLabel(freq, Min({day[i] : i \in rows})),
                             BinLabel(freq, Max({day[i] : i \in rows})))
    IN  [k \in 1..Len(labels) |->
            [start |-> labels[k],
             sum   |-> SumSet({i \in rows : BinLabel(freq, day[i]) = labels[k]},
                               val)]]

TrendMinRows == 10

DateKpis(t, d) ==
    IF Truthy(d) /\ Count(Column(t, d).cells) > 0
    THEN LET days == {Column(t, d).cells[i][2] : i \in notna(Column(t, d).cells)}
         IN  << << <<"Date range">>, FmtRange(Min(days), Max(days)) >> >>
    ELSE <<>>

TotalKpis(t, m) ==
    LET x == Values(Column(t, m).cells)
    IN  << << <<"Total", " ">> \o m, FmtFixed2(SumSeq(x), 1) >>,
           << <<"Average", " ">> \o m,
              IF Len(x) = 0 THEN Dash ELSE FmtFixed2(SumSeq(x), Len(x)) >> >>

(* variant: the trend is computed for any non-empty tmp *)
TrendKpis_AnyRows(t, d, m) ==
    IF Truthy(d) /\ Cardinality(JointRows(t, d, m)) >= 1
    THEN LET series == Resample(t, d, m)
             n      == Len(series)
         IN  IF n >= 2
             THEN IF series[n - 1].sum # 0
                  THEN << << <<"Change vs prev period">>,
                             FmtPct(series[n].sum - series[n - 1].sum,
                                    Abs(series[n - 1].sum)) >> >>
                  ELSE << << <<"Change vs prev period">>, Dash >> >>
             ELSE <<>>
    ELSE <<>>

(* variant: divided by prev instead of abs(prev) *)
TrendKpis_NoAbs(t, d, m) ==
    IF Truthy(d) /\ Cardinality(JointRows(t, d, m)) >= TrendMinRows
    THEN LET series == Resample(t, d, m)
             n      == Len(series)
         IN  IF n >= 2
             THEN IF series[n - 1].sum # 0
                  THEN << << <<"Change vs prev period">>,
                             FmtPct(IF series[n - 1].sum < 0
                                    THEN series[n - 1].sum - series[n].sum
                                    ELSE series[n].sum - series[n - 1].sum,
                                    Abs(series[n - 1].sum)) >> >>
                  ELSE << << <<"Change vs prev period">>, Dash >> >>
             ELSE <<>>
    ELSE <<>>

TrendKpis(t, d, m) ==
    IF Truthy(d) /\ Cardinality(JointRows(t, d, m)) >= TrendMinRows
    THEN LET series == Resample(t, d, m)
             n      == Len(series)
         IN  IF n >= 2
             THEN IF series[n - 1].sum # 0
                  THEN << << <<"Change vs prev period">>,
                             FmtPct(series[n].sum - series[n - 1].sum,
                                    Abs(series[n - 1].sum)) >> >>
                  ELSE << << <<"Change vs prev period">>, Dash >> >>
             ELSE <<>>
    ELSE <<>>

(* variant: the metric entries before the date range *)
compute_kpis_MetricFirst(t, d, m) ==
    << << <<"Rows">>, FmtCount(t.rows) >>,
       << <<"Columns">>, FmtCount(Len(t.cols)) >> >>
    \o (IF Truthy(m) THEN TotalKpis(t, m) \o TrendKpis(t, d, m) ELSE <<>>)
    \o DateKpis(t, d)

compute_kpis(t, d, m) ==
    << << <<"Rows">>, FmtCount(t.rows) >>,
       << <<"Columns">>, FmtCount(Len(t.cols)) >> >>
    \o DateKpis(t, d)
    \o (IF Truthy(m) THEN TotalKpis(t, m) \o TrendKpis(t, d, m) ELSE <<>>)

(* the calls of compute_kpis that end in an exception: ".date()" on the    *)
(* minimum of a column that is not datetime64, and sum / mean / isfinite   *)
(* on dates or on strings                                                  *)
HasColumn(t, name) == \E i \in 1..Len(t.cols) : t.cols[i].name = name

KpisRaises(t, d, m) ==
    \/ Truthy(d) /\ ~HasColumn(t, d)
    \/ Truthy(m) /\ ~HasColumn(t, m)
    \/ /\ Truthy(d) /\ HasColumn(t, d)
       /\ ~IsDatetime(Column(t, d)) /\ Count(Column(t, d).cells) > 0
    \/ /\ Truthy(m) /\ HasColumn(t, m)
       /\ \/ Column(t, m).type = "temporal"
          \/ Column(t, m).type = "text" /\ Count(Column(t, m).cells) > 0

(* ---------------------------------------------------------------------- *)
(* build_trend_chart: the series it plots                                  *)
(* ---------------------------------------------------------------------- *)
(* tmp = df[[date_col, metric_col]].dropna().sort_values(date_col) *)
ChartRows(t, d, m) ==
    {i \in 1..t.rows : notna(<<Column(t, d).cells[i], Column(t, m).cells[i]>>) = {1, 2}}

(* span_days is NaN for an empty tmp, and NaN >= 60 is false *)
ChartFreq(t, d, m) ==
    LET days == {Column(t, d).cells[i][2] : i \in ChartRows(t, d, m)}
    IN  IF days # {} /\ Max(days) - Min(days) >= 60 THEN "MS" ELSE "W-MON"

(* variant: always weekly *)
build_trend_series_Weekly(t, d, m) ==
    LET rows   == ChartRows(t, d, m)
        days   == {Column(t, d).cells[i][2] : i \in rows}
        val    == [i \in rows |-> Column(t, m).cells[i][2]]
        labels == IF rows = {} THEN <<>>
                  ELSE LabelsFrom("W-MON", BinLabel("W-MON", Min(days)),
                                  BinLabel("W-MON", Max(days)))
    IN  [k \in 1..Len(labels) |->
            [start |-> labels[k],
             sum   |-> SumSet({i \in rows :
                                 BinLabel("W-MON", Column(t, d).cells[i][2]) = labels[k]},
                              val)]]

(* series = tmp.set_index(date_col)[metric_col].resample(freq).sum();      *)
(* resampling an empty tmp gives an empty series                           *)
build_trend_series(t, d, m) ==
    LET rows   == ChartRows(t, d, m)
        freq   == ChartFreq(t, d, m)
        days   == {Column(t, d).cells[i][2] : i \in rows}
        val    == [i \in rows |-> Column(t, m).cells[i][2]]
        labels == IF rows = {} THEN <<>>
                  ELSE LabelsFrom(freq, BinLabel(freq, Min(days)),
                                  BinLabel(freq, Max(days)))
    IN  [k \in 1..Len(labels) |->
            [start |-> labels[k],
             sum   |-> SumSet({i \in rows :
                                 BinLabel(freq, Column(t, d).cells[i][2]) = labels[k]},
                              val)]]

(* ---------------------------------------------------------------------- *)
(* build_category_chart: the values of the bars, in the order of agg.  The *)
(* group labels are left out: which of several equal values comes first is *)
(* the sort's choice, the values themselves are not.                       *)
(* ---------------------------------------------------------------------- *)
TopN == 5

(* the n greatest values f[x], x in S, greatest first *)
RECURSIVE Largest(_, _, _)
Largest(S, f, n) ==
    IF n = 0 \/ S = {} THEN <<>>
    ELSE LET x == CHOOSE y \in S : \A z \in S : f[y] >= f[z]
         IN  <<f[x]>> \o Largest(S \ {x}, f, n - 1)

(* df[[category_col, metric_col]].dropna().groupby(category_col)           *)
(*    [metric_col].sum().sort_values(ascending=False).head(top_n)          *)
SumByCategory(t, c, m, top_n) ==
    LET rows   == {i \in 1..t.rows : ~IsMissing(Column(t, c).cells[i])
                                     /\ ~IsMissing(Column(t, m).cells[i])}
        groups == {Column(t, c).cells[i] : i \in rows}
        val    == [i \in rows |-> Column(t, m).cells[i][2]]
        total  == [g \in groups |->
                     SumSet({i \in rows : Column(t, c).cells[i] = g}, val)]
    IN  Largest(groups, total, top_n)

(* df[category_col].dropna().value_counts().head(top_n)                    *)
(*    .sort_values(ascending=True)                                         *)
CountByCategory(t, c, top_n) ==
    LET cells  == Column(t, c).cells
        groups == {cells[i] : i \in notna(cells)}
        count  == [g \in groups |-> Cardinality({i \in 1..Len(cells) : cells[i] = g})]
    IN  Reverse(Largest(groups, count, top_n))

CategoryAgg(t, c, m, top_n) ==
    IF Truthy(m) /\ is_numeric_dtype(Column(t, m))
    THEN SumByCategory(t, c, m, top_n)
    ELSE CountByCategory(t, c, top_n)

(* colors = plt.cm.Blues(range(50, 255, 205 // len(agg))): ZeroDivisionError *)
(* for an empty agg, ValueError for a zero step                            *)
CategoryChartRaises(a) == Len(a) = 0 \/ 205 \div Len(a) = 0

(* ---------------------------------------------------------------------- *)
(* Input tables                                                            *)
(* ---------------------------------------------------------------------- *)
Types == {"text", "numeric", "temporal", "boolean"}

(* a bool-dtype column holds no missing value *)
CellsOfType(type) ==
    CASE type = "text"     -> {Missing, <<"iso", 0>>, <<"amb", 1>>, <<"junk", 1>>}
      [] type = "numeric"  -> {Missing, <<"num", 0>>, <<"num", 1>>}
      [] type = "temporal" -> {Missing, <<"ts", 0>>}
      [] type = "boolean"  -> {<<"bool", 0>>, <<"bool", 1>>}

(* one column of any type, at most MaxRows rows *)
SingleTable(t) ==
    \E r \in 0..MaxRows, name \in {<<"x">>, <<"I", "d">>}, ty \in Types :
        \E c \in [1..r -> CellsOfType(ty)] :
            t = [rows |-> r, cols |-> << [name |-> name, type |-> ty, cells |-> c] >>]

(* two columns of one type, at most MaxRows rows *)
PairNames(ty) ==
    IF ty = "numeric"
    THEN {<< <<"x">>, <<"I", "d">> >>, << <<"I", "d">>, <<"x">> >>, << <<"x">>, <<"y">> >>}
    ELSE {<< <<"x">>, <<"y">> >>}

SecondCells(ty) ==
    IF ty = "text" THEN {Missing, <<"iso", 0>>, <<"junk", 1>>} ELSE CellsOfType(ty)

PairTable(t) ==
    \E r \in 0..MaxRows, ty \in Types :
        \E names \in PairNames(ty), c1 \in [1..r -> CellsOfType(ty)],
           c2 \in [1..r -> SecondCells(ty)] :
            t = [rows |-> r,
                 cols |-> << [name |-> names[1], type |-> ty, cells |-> c1],
                             [name |-> names[2], type |-> ty, cells |-> c2] >>]

(* two columns of different types, fewer than MaxRows rows *)
MixedTable(t) ==
    \E r \in 0..(MaxRows - 1), ty1 \in Types, ty2 \in Types :
        /\ ty1 # ty2
        /\ \E c1 \in [1..r -> CellsOfType(ty1)], c2 \in [1..r -> CellsOfType(ty2)] :
              t = [rows |-> r,
                   cols |-> << [name |-> <<"x">>, type |-> ty1, cells |-> c1],
                               [name |-> <<"y">>, type |-> ty2, cells |-> c2] >>]

SmallTable(t) == SingleTable(t) \/ PairTable(t) \/ MixedTable(t)

(* raw headers: every string of at most MaxNameLen characters *)
NameChars == {"a", " ", "\t"}

RawNames == UNION {[1..k -> NameChars] : k \in 0..MaxNameLen}

NameCells == {Missing, <<"num", 1>>}

OtherNames == {<<"a">>, <<"a", " ", "a">>}

NameTable(t) ==
    \E n1 \in RawNames, n2 \in OtherNames, c1 \in NameCells :
        t = [rows |-> 1,
             cols |-> << [name |-> n1, type |-> "numeric", cells |-> <<c1>>],
                         [name |-> n2, type |-> "numeric", cells |-> << <<"num", 1>> >>] >>]

(* a date and a metric column in two blocks of rows: the first s rows hold *)
(* (d1, v1), the others (d2, v2)                                           *)
TrendDays ==
    {Missing, <<"ts", 0>>, <<"ts", 1>>, <<"ts", 14>>, <<"ts", 59>>, <<"ts", 60>>}

TrendValues == {Missing, <<"num", 0>>, <<"num", 1>>, <<"num", 0 - 2>>}

TrendTable(t) ==
    \E n \in (TrendMinRows - 1)..MaxTrendRows :
        \E s \in 0..n, d1 \in TrendDays, d2 \in TrendDays,
           v1 \in TrendValues, v2 \in TrendValues :
            t = [rows |-> n,
                 cols |-> << [name |-> <<"d">>, type |-> "temporal",
                              cells |-> [i \in 1..n |-> IF i <= s THEN d1 ELSE d2]],
                             [name |-> <<"m">>, type |-> "numeric",
                              cells |-> [i \in 1..n |-> IF i <= s THEN v1 ELSE v2]] >>]

(* two text columns of many rows with k1 and k2 distinct values *)
BigRowCounts == {60, 200}

DistinctCounts == {9, 11, 50, 51, 60, 61}

BigTable(t) ==
    \E n \in BigRowCounts, k1 \in DistinctCounts, k2 \in DistinctCounts,
       last \in {Missing, <<"junk", 0>>} :
        t = [rows |-> n,
             cols |-> << [name |-> <<"x">>, type |-> "text",
                          cells |-> [i \in 1..n |-> <<"junk", i % k1>>]],
                         [name |-> <<"y">>, type |-> "text",
                          cells |-> [i \in 1..n |->
                                       IF i = n THEN last ELSE <<"junk", i % k2>>]] >>]

(* one text column longer than the sample: SampleSize cells of one string, *)
(* then SampleSize cells of another                                        *)
LongTable(t) ==
    \E k1 \in CellsOfType("text"), k2 \in CellsOfType("text") :
        t = [rows |-> 2 * SampleSize,
             cols |-> << [name |-> <<"x">>, type |-> "text",
                          cells |-> [i \in 1..(2 * SampleSize) |->
                                       IF i <= SampleSize THEN k1 ELSE k2]] >>]

RawTable(t) ==
    SmallTable(t) \/ NameTable(t) \/ TrendTable(t) \/ BigTable(t) \/ LongTable(t)

(* ---------------------------------------------------------------------- *)
(* main(): clean, infer the three roles, compute the KPIs                  *)
(* ---------------------------------------------------------------------- *)
Init ==
    /\ pc = "read"
    /\ RawTable(raw)
    /\ df = NoTable
    /\ date_col = None
    /\ metric_col = None
    /\ category_col = None
    /\ kpis = <<>>
    /\ fig_trend = <<>>
    /\ fig_cat = <<>>

Clean ==
    /\ pc = "read"
    /\ IF CleanRaises(raw)
       THEN pc' = "raised" /\ df' = df
       ELSE pc' = "cleaned" /\ df' = clean_dataframe(raw)
    /\ UNCHANGED <<raw, date_col, metric_col, category_col, kpis, fig_trend, fig_cat>>

InferDate ==
    /\ pc = "cleaned"
    /\ date_col' = infer_date_column(df)
    /\ pc' = "date"
    /\ UNCHANGED <<raw, df, metric_col, category_col, kpis, fig_trend, fig_cat>>

InferMetric ==
    /\ pc = "date"
    /\ metric_col' = infer_metric_column(df)
    /\ pc' = "metric"
    /\ UNCHANGED <<raw, df, date_col, category_col, kpis, fig_trend, fig_cat>>

InferCategory ==
    /\ pc = "metric"
    /\ category_col' = infer_category_column(df)
    /\ pc' = "category"
    /\ UNCHANGED <<raw, df, date_col, metric_col, kpis, fig_trend, fig_cat>>

ComputeKpis ==
    /\ pc = "category"
    /\ IF KpisRaises(df, date_col, metric_col)
       THEN pc' = "kpis_raised" /\ kpis' = kpis
       ELSE pc' = "kpis" /\ kpis' = compute_kpis(df, date_col, metric_col)
    /\ UNCHANGED <<raw, df, date_col, metric_col, category_col, fig_trend, fig_cat>>

(* "if date_col and metric_col:" build_trend_chart, else a warning *)
BuildTrendChart ==
    /\ pc = "kpis"
    /\ fig_trend' = IF Truthy(date_col) /\ Truthy(metric_col)
                    THEN build_trend_series(df, date_col, metric_col)
                    ELSE fig_trend
    /\ pc' = "trend"
    /\ UNCHANGED <<raw, df, date_col, metric_col, category_col, kpis, fig_cat>>

(* "if category_col:" build_category_chart, else a warning *)
BuildCategoryChart ==
    /\ pc = "trend"
    /\ IF Truthy(category_col)
       THEN LET a == CategoryAgg(df, category_col, metric_col, TopN)
            IN  IF CategoryChartRaises(a)
                THEN pc' = "category_raised" /\ fig_cat' = fig_cat
                ELSE pc' = "charts" /\ fig_cat' = a
       ELSE pc' = "charts" /\ fig_cat' = fig_cat
    /\ UNCHANGED <<raw, df, date_col, metric_col, category_col, kpis, fig_trend>>

Next ==
    \/ Clean \/ InferDate \/ InferMetric \/ InferCategory \/ ComputeKpis
    \/ BuildTrendChart \/ BuildCategoryChart

Spec == Init /\ [][Next]_vars

(* ---------------------------------------------------------------------- *)
(* compute_kpis called with any date and metric arguments: None or the     *)
(* name of a column of the role's dtype; then the trend chart of the same  *)
(* arguments                                                               *)
(* ---------------------------------------------------------------------- *)
DateArgs(t) ==
    {None} \cup {t.cols[i].name : i \in {j \in 1..Len(t.cols) : IsDatetime(t.cols[j])}}

MetricArgs(t) ==
    {None} \cup {t.cols[i].name : i \in {j \in 1..Len(t.cols) : is_numeric_dtype(t.cols[j])}}

ComputeKpisAny ==
    /\ pc = "cleaned"
    /\ \E d \in DateArgs(df), m \in MetricArgs(df) :
          /\ date_col' = d
          /\ metric_col' = m
          /\ kpis' = compute_kpis(df, d, m)
    /\ pc' = "kpis"
    /\ UNCHANGED <<raw, df, category_col, fig_trend, fig_cat>>

NextKpis == Clean \/ ComputeKpisAny \/ BuildTrendChart

SpecKpis == Init /\ [][NextKpis]_vars

(* ---------------------------------------------------------------------- *)
(* compute_kpis called on a table as it was read, without clean_dataframe, *)
(* with any date and metric arguments of the role's dtype                  *)
(* ---------------------------------------------------------------------- *)
CallComputeKpis ==
    /\ pc = "read"
    /\ ~HasDuplicateNames(raw.cols)
    /\ \E d \in DateArgs(raw), m \in MetricArgs(raw) :
          /\ date_col' = d
          /\ metric_col' = m
          /\ kpis' = compute_kpis(raw, d, m)
    /\ df' = raw
    /\ pc' = "kpis"
    /\ UNCHANGED <<raw, category_col, fig_trend, fig_cat>>

NextCall == CallComputeKpis

SpecCall == Init /\ [][NextCall]_vars

(* ====================================================================== *)
(* Properties                                                              *)
(* ====================================================================== *)
Cleaned ==
    pc \in {"cleaned", "date", "metric", "category", "kpis", "kpis_raised",
            "trend", "charts", "category_raised"}

(* the input columns that survive, under their normalised names, in order: *)
(* output column i of clean_dataframe comes from KeptInput[i]              *)
KeptInput ==
    LET NonEmpty(c) == \E k \in 1..Len(c.cells) : c.cells[k] # Missing
    IN  SelectSeq(Renamed(raw), NonEmpty)

WasConverted(i) == KeptInput[i].type = "text" /\ df.cols[i].type = "temporal"

(* C1: a second pass of clean_dataframe over its own output succeeds and   *)
(* returns that output unchanged: same names, same columns, same types and *)
(* same cells.                                                             *)
C1_Idempotent ==
    Cleaned => (~CleanRaises(df) /\ clean_dataframe(df) = df)

C1_Witness ==
    /\ pc = "cleaned"
    /\ Len(raw.cols) = 2
    /\ Len(df.cols) = 1
    /\ WasConverted(1)
    /\ \E k \in 1..df.rows : df.cols[1].cells[k] = Missing

(* C2 (as claimed): on a table without boolean columns the metric is the   *)
(* first numeric column, in table order, whose pair (non-missing count     *)
(* minus 2 for an id/postcode/zip name, sample variance with 0 for fewer   *)
(* than two values) is lexicographically greatest.                         *)
ClaimedMetricPair(col) ==
    LET v == Var(col.cells)
    IN  [base |-> Count(col.cells) + NamePenalty(col),
         num  |-> IF v.nan THEN 0 ELSE v.num,
         den  |-> IF v.nan THEN 1 ELSE v.den]

PairGE(p, q) ==
    \/ p.base > q.base
    \/ p.base = q.base /\ p.num * q.den >= q.num * p.den

ClaimedMetric(t) ==
    LET cand == {i \in 1..Len(t.cols) : t.cols[i].type = "numeric"}
        best == {i \in cand : \A j \in cand :
                    PairGE(ClaimedMetricPair(t.cols[i]), ClaimedMetricPair(t.cols[j]))}
    IN  IF cand = {} THEN None ELSE t.cols[Min(best)].name

C2_MetricIsGreatestPair ==
    (pc \in {"metric", "category", "kpis"}
        /\ \A i \in 1..Len(df.cols) : df.cols[i].type # "boolean")
    => metric_col = ClaimedMetric(df)

(* C3: the category is the first text column, in table order, whose pair   *)
(* (penalty, non-missing count) is lexicographically greatest, where       *)
(* penalty = -|distinct - 10|, less 50 when distinct > max(50, 0.3 * rows).*)
ClaimedCategoryPair(col, rows) ==
    LET distinct == Cardinality({c \in {col.cells[k] : k \in 1..Len(col.cells)} :
                                    c # Missing})
        dist     == IF distinct >= 10 THEN distinct - 10 ELSE 10 - distinct
        heavy    == distinct > 50 /\ 10 * distinct > 3 * rows
    IN  <<IF heavy THEN 0 - dist - 50 ELSE 0 - dist, Count(col.cells)>>

IntPairGE(p, q) == p[1] > q[1] \/ (p[1] = q[1] /\ p[2] >= q[2])

ClaimedCategory(t) ==
    LET cand == {i \in 1..Len(t.cols) : t.cols[i].type = "text"}
        best == {i \in cand : \A j \in cand :
                    IntPairGE(ClaimedCategoryPair(t.cols[i], t.rows),
                              ClaimedCategoryPair(t.cols[j], t.rows))}
    IN  IF cand = {} THEN None ELSE t.cols[Min(best)].name

C3_CategoryIsGreatestPair ==
    pc \in {"category", "kpis"} => category_col = ClaimedCategory(df)

(* two text candidates with equal pairs: the earlier one is returned *)
C3_WitnessTie ==
    /\ pc = "category"
    /\ Len(df.cols) = 2
    /\ df.cols[1].type = "text" /\ df.cols[2].type = "text"
    /\ ClaimedCategoryPair(df.cols[1], df.rows) = ClaimedCategoryPair(df.cols[2], df.rows)
    /\ nunique(df.cols[1].cells) # nunique(df.cols[2].cells)
    /\ category_col = df.cols[1].name

(* C4: the date column is the first temporal column, in table order, with  *)
(* the greatest count of non-missing values.                               *)
ClaimedDate(t) ==
    LET cand == {i \in 1..Len(t.cols) : t.cols[i].type = "temporal"}
        best == {i \in cand : \A j \in cand :
                    Count(t.cols[i].cells) >= Count(t.cols[j].cells)}
    IN  IF cand = {} THEN None ELSE t.cols[Min(best)].name

C4_DateIsMostComplete ==
    pc \in {"date", "metric", "category", "kpis"} => date_col = ClaimedDate(df)

(* two temporal candidates share the greatest count: the first is returned *)
C4_WitnessTie ==
    /\ pc = "date"
    /\ Len(df.cols) = 2
    /\ df.cols[1].type = "temporal" /\ df.cols[2].type = "temporal"
    /\ Count(df.cols[1].cells) = Count(df.cols[2].cells)
    /\ date_col = df.cols[1].name

(* C5 (as claimed): each selector returns a column of its own type, and    *)
(* none when the table has no column of that type; no column has two roles.*)
TypeOfRole(name) == Column(df, name).type

HasType(t, ty) == \E i \in 1..Len(t.cols) : t.cols[i].type = ty

RoleOfType(sel, ty) ==
    IF HasType(df, ty) THEN sel # None /\ TypeOfRole(sel) = ty ELSE sel = None

C5_RolesByType ==
    pc \in {"category", "kpis"} =>
        /\ RoleOfType(date_col, "temporal")
        /\ RoleOfType(metric_col, "numeric")
        /\ RoleOfType(category_col, "text")
        /\ date_col = None \/ date_col # metric_col
        /\ date_col = None \/ date_col # category_col
        /\ metric_col = None \/ metric_col # category_col

(* C6 (as claimed): a converted column holds what the strategy that won on *)
(* the sample (the higher sample rate, Strategy A on a tie) yields for     *)
(* every cell of the whole column.                                         *)
SampleOf(col) ==
    LET nn == dropna(col.cells)
    IN  IF Len(nn) > 100 THEN SubSeq(nn, 1, 100) ELSE nn

SampleWinner(col) ==
    IF Count(ToDatetimeDayfirst(SampleOf(col))) > Count(ToDatetimeMixed(SampleOf(col)))
    THEN "B" ELSE "A"

C6_WinnerIsWritten ==
    Cleaned =>
        \A i \in 1..Len(df.cols) :
            WasConverted(i) =>
                df.cols[i].cells =
                    IF SampleWinner(KeptInput[i]) = "B"
                    THEN ToDatetimeDayfirst(KeptInput[i].cells)
                    ELSE ToDatetimeMixed(KeptInput[i].cells)

(* C7: a column is converted to temporal exactly when it is text, its      *)
(* sample is not empty and the better attempted strategy parses at least   *)
(* half of the sample; every other surviving column is returned as it was. *)
ClaimedBestCount(col) ==
    LET a == Count(ToDatetimeMixed(SampleOf(col)))
        b == Count(ToDatetimeDayfirst(SampleOf(col)))
    IN  IF 10 * a < 8 * Len(SampleOf(col)) /\ b > a THEN b ELSE a

ClaimedConversion(col) ==
    /\ col.type = "text"
    /\ SampleOf(col) # <<>>
    /\ 2 * ClaimedBestCount(col) >= Len(SampleOf(col))

C7_ConvertsIff ==
    Cleaned =>
        /\ Len(df.cols) = Len(KeptInput)
        /\ \A i \in 1..Len(df.cols) :
              /\ WasConverted(i) <=> ClaimedConversion(KeptInput[i])
              /\ ~ClaimedConversion(KeptInput[i]) => df.cols[i] = KeptInput[i]

(* a text column at exactly half is converted next to one below half *)
C7_Witness ==
    /\ pc = "cleaned"
    /\ Len(df.cols) = 2
    /\ WasConverted(1)
    /\ 2 * ClaimedBestCount(KeptInput[1]) = Len(SampleOf(KeptInput[1]))
    /\ df.cols[2].type = "text"
    /\ ClaimedBestCount(KeptInput[2]) > 0

(* C8: the output has no all-missing column, has every input column that   *)
(* holds a non-missing cell (in order, under its normalised name), and has *)
(* the input's row count.                                                  *)
C8_EmptyColumns ==
    Cleaned =>
        /\ \A i \in 1..Len(df.cols) :
              \E k \in 1..Len(df.cols[i].cells) : df.cols[i].cells[k] # Missing
        /\ [i \in 1..Len(df.cols) |-> df.cols[i].name]
              = [i \in 1..Len(KeptInput) |-> KeptInput[i].name]
        /\ df.rows = raw.rows
        /\ \A i \in 1..Len(df.cols) : Len(df.cols[i].cells) = raw.rows

(* an all-missing column was dropped and the surviving column, which has   *)
(* missing cells, was kept                                                 *)
C8_Witness ==
    /\ pc = "cleaned"
    /\ Len(raw.cols) = 2
    /\ Count(raw.cols[1].cells) = 0
    /\ raw.rows = MaxRows
    /\ Len(df.cols) = 1
    /\ df.cols[1].name = raw.cols[2].name
    /\ Count(df.cols[1].cells) = 1

(* C9: no output column name starts or ends with whitespace or holds two   *)
(* whitespace characters in a row.                                         *)
CleanName(n) ==
    /\ n # <<>> => (n[1] \notin Whitespace /\ n[Len(n)] \notin Whitespace)
    /\ \A k \in 1..(Len(n) - 1) : ~(n[k] \in Whitespace /\ n[k + 1] \in Whitespace)

C9_Names == Cleaned => \A i \in 1..Len(df.cols) : CleanName(df.cols[i].name)

(* a header with a tab-and-space run inside it *)
C9_Witness ==
    /\ pc = "cleaned"
    /\ raw.cols[1].name = <<"a", "\t", " ", "a">>
    /\ Len(df.cols) = 2
    /\ df.cols[1].name = <<"a", " ", "a">>

(* C10: the entries start with ("Rows", rows) and ("Columns", columns);    *)
(* what follows is drawn, each at most once and in this order, from Date   *)
(* range, Total, Average, Change vs prev period.                           *)
LabelRank(label) ==
    CASE label[1] = "Date range"            -> 1
      [] label[1] = "Total"                 -> 2
      [] label[1] = "Average"               -> 3
      [] label[1] = "Change vs prev period" -> 4
      [] OTHER                              -> 0

C10_KpiOrder ==
    pc = "kpis" =>
        /\ Len(kpis) >= 2
        /\ kpis[1] = << <<"Rows">>, FmtCount(df.rows) >>
        /\ kpis[2] = << <<"Columns">>, FmtCount(Len(df.cols)) >>
        /\ \A i \in 3..Len(kpis) : LabelRank(kpis[i][1]) > 0
        /\ \A i \in 3..(Len(kpis) - 1) :
              LabelRank(kpis[i][1]) < LabelRank(kpis[i + 1][1])

C10_Witness == pc = "kpis" /\ Len(kpis) = 6

(* C11 (as claimed): whenever the metric argument names a column of the    *)
(* table, whatever the name, the empty name included, the entries hold     *)
(* "Total <name>" immediately followed by "Average <name>".                *)
TotalLabel(name) == <<"Total", " ">> \o name

AverageLabel(name) == <<"Average", " ">> \o name

C11_TotalThenAverage ==
    (pc = "kpis" /\ metric_col # None /\ HasColumn(df, metric_col)) =>
        \E i \in 1..(Len(kpis) - 1) :
            /\ kpis[i][1] = TotalLabel(metric_col)
            /\ kpis[i + 1][1] = AverageLabel(metric_col)

(* C12 (as claimed): when every cell of the metric column is missing, the  *)
(* "Total <metric>" value and the "Average <metric>" value are both the    *)
(* placeholder.                                                            *)
C12_AllMissingDashes ==
    (/\ pc = "kpis"
     /\ Truthy(metric_col)
     /\ df.rows > 0
     /\ \A k \in 1..df.rows : Column(df, metric_col).cells[k] = Missing)
    => \E i \in 1..(Len(kpis) - 1) :
           /\ kpis[i] = <<TotalLabel(metric_col), Dash>>
           /\ kpis[i + 1] = <<AverageLabel(metric_col), Dash>>

(* C13: when fewer than 10 rows hold both a date and a metric value, or    *)
(* when the date or the metric argument is unset, the entries hold no      *)
(* "Change vs prev period".                                                *)
BothPresent(t, d, m) ==
    {k \in 1..t.rows : Column(t, d).cells[k] # Missing /\ Column(t, m).cells[k] # Missing}

HasChange == \E i \in 1..Len(kpis) : kpis[i][1] = <<"Change vs prev period">>

C13_TrendGuard ==
    pc = "kpis" =>
        /\ (date_col = None \/ metric_col = None) => ~HasChange
        /\ (date_col # None /\ metric_col # None
              /\ Cardinality(BothPresent(df, date_col, metric_col)) < 10) => ~HasChange

(* nine joint rows on two different dates *)
C13_Witness ==
    /\ pc = "kpis"
    /\ date_col # None /\ metric_col # None
    /\ Cardinality(BothPresent(df, date_col, metric_col)) = 9
    /\ Cardinality({Column(df, date_col).cells[k] : k \in BothPresent(df, date_col, metric_col)}) = 2
    /\ ~HasChange

(* C14: when the trend is computed over at least two buckets, the entry    *)
(* "Change vs prev period" is there once; its value is the placeholder if  *)
(* the previous bucket's sum is 0 and otherwise (last - previous) /        *)
(* |previous| x 100 with its sign and one decimal.                         *)
TrendComputed ==
    /\ pc = "kpis"
    /\ date_col # None /\ metric_col # None
    /\ Cardinality(BothPresent(df, date_col, metric_col)) >= 10

(* x / y in tenths, to the nearest tenth, an exact half going to the even  *)
(* digit as the formatting of a binary double does; x >= 0, y > 0          *)
NearestTenths(x, y) ==
    CHOOSE r \in 0..((10 * x) \div y + 1) :
        /\ 2 * r * y >= 20 * x - y
        /\ 2 * r * y <= 20 * x + y
        /\ (2 * r * y = 20 * x - y \/ 2 * r * y = 20 * x + y) => r % 2 = 0

ClaimedChange(previous, last) ==
    IF previous = 0 THEN Dash
    ELSE LET diff == 100 * (last - previous)
             mag  == IF previous < 0 THEN 0 - previous ELSE previous
         IN  [fmt |-> IF diff < 0 THEN "-.1f%" ELSE "+.1f%",
              n   |-> NearestTenths(IF diff < 0 THEN 0 - diff ELSE diff, mag),
              m   |-> 0]

C14_ChangeValue ==
    (TrendComputed /\ Len(Resample(df, date_col, metric_col)) >= 2) =>
        LET s == Resample(df, date_col, metric_col)
        IN  /\ Cardinality({i \in 1..Len(kpis) :
                              kpis[i][1] = <<"Change vs prev period">>}) = 1
            /\ \E i \in 1..Len(kpis) :
                  kpis[i] = << <<"Change vs prev period">>,
                               ClaimedChange(s[Len(s) - 1].sum, s[Len(s)].sum) >>

(* a negative previous sum and a greater last sum: a rise, signed "+",     *)
(* that is not a whole number of tenths                                    *)
C14_Witness ==
    /\ TrendComputed
    /\ Len(Resample(df, date_col, metric_col)) >= 2
    /\ LET s == Resample(df, date_col, metric_col)
       IN  /\ s[Len(s) - 1].sum < 0
           /\ s[Len(s)].sum > 0
           /\ (1000 * (s[Len(s)].sum - s[Len(s) - 1].sum)) % (0 - s[Len(s) - 1].sum) # 0
    /\ \E i \in 1..Len(kpis) :
          kpis[i][1] = <<"Change vs prev period">> /\ kpis[i][2].fmt = "+.1f%"

(* C15 (as claimed): the buckets are calendar months, starting on the      *)
(* first of the month, when the span of the dates is at least 60 whole     *)
(* days, and otherwise weeks starting on a Monday; each bucket holds       *)
(* exactly the rows dated from its start to the day before the next start, *)
(* so a weekly bucket holds its Monday and the six days after it.          *)
TrendDates == {Column(df, date_col).cells[k][2] : k \in BothPresent(df, date_col, metric_col)}

IsMonday(day) == day % 7 = 0

IsFirstOfMonth(day) == \E i \in 1..Len(MonthStarts) : MonthStarts[i] = day

NextMonth(day) == Min({MonthStarts[i] : i \in {j \in 1..Len(MonthStarts) : MonthStarts[j] > day}})

RowsDated(from, to) ==
    {k \in BothPresent(df, date_col, metric_col) :
        /\ Column(df, date_col).cells[k][2] >= from
        /\ Column(df, date_col).cells[k][2] <= to}

MetricSum(rows) == SumSet(rows, [k \in rows |-> Column(df, metric_col).cells[k][2]])

C15_Buckets ==
    TrendComputed =>
        LET s       == Resample(df, date_col, metric_col)
            monthly == Max(TrendDates) - Min(TrendDates) >= 60
        IN  /\ \A b \in 1..Len(s) :
                  IF monthly
                  THEN /\ IsFirstOfMonth(s[b].start)
                       /\ s[b].sum = MetricSum(RowsDated(s[b].start,
                                                         NextMonth(s[b].start) - 1))
                  ELSE /\ IsMonday(s[b].start)
                       /\ s[b].sum = MetricSum(RowsDated(s[b].start, s[b].start + 6))
            /\ \A k \in BothPresent(df, date_col, metric_col) :
                  \E b \in 1..Len(s) :
                      /\ s[b].start <= Column(df, date_col).cells[k][2]
                      /\ Column(df, date_col).cells[k][2]
                            < (IF monthly THEN NextMonth(s[b].start) ELSE s[b].start + 7)

(* C16: whenever compute_kpis computes a trend (at least 10 rows hold both *)
(* values), the series plotted by build_trend_chart for the same table and *)
(* arguments has the same bucket width, the same bucket starts and the     *)
(* same bucket sums as the series compute_kpis compares.                   *)
C16_SameSeries ==
    (/\ pc = "trend"
     /\ date_col # None /\ metric_col # None
     /\ Cardinality(BothPresent(df, date_col, metric_col)) >= 10)
    => /\ ChartFreq(df, date_col, metric_col) = Freq(df, date_col, metric_col)
       /\ fig_trend = Resample(df, date_col, metric_col)

(* a monthly series of several buckets was plotted *)
C16_Witness ==
    /\ pc = "trend"
    /\ date_col # None /\ metric_col # None
    /\ Cardinality(BothPresent(df, date_col, metric_col)) >= 10
    /\ Len(fig_trend) >= 2
    /\ fig_trend[2].start - fig_trend[1].start > 7

(* C17: when the numeric columns all have the same count of non-missing    *)
(* values and one of them has no 'id', 'postcode' or 'zip' in its          *)
(* lower-cased name, the metric is not a numeric column with such a name,  *)
(* whatever the variances.                                                 *)
PenalisedName(name) ==
    \E pat \in {<<"i", "d">>, <<"z", "i", "p">>,
                <<"p", "o", "s", "t", "c", "o", "d", "e">>} :
        \E k \in 1..(Len(name) - Len(pat) + 1) :
            \A j \in 1..Len(pat) : Lower(name[k + j - 1]) = pat[j]

NumericColumns(t) == {i \in 1..Len(t.cols) : t.cols[i].type = "numeric"}

C17_PenalisedNotSelected ==
    (/\ pc \in {"metric", "category", "kpis", "trend", "charts"}
     /\ \A i, j \in NumericColumns(df) : Count(df.cols[i].cells) = Count(df.cols[j].cells)
     /\ \E i \in NumericColumns(df) : ~PenalisedName(df.cols[i].name))
    => ~PenalisedName(metric_col)

(* 'Id' comes first and has the greater variance; 'x' is selected *)
C17_Witness ==
    /\ pc = "metric"
    /\ Len(df.cols) = 2
    /\ df.cols[1].name = <<"I", "d">> /\ df.cols[2].name = <<"x">>
    /\ df.cols[1].cells = << <<"num", 0>>, <<"num", 1>>, Missing >>
    /\ df.cols[2].cells = << <<"num", 1>>, Missing, <<"num", 1>> >>
    /\ metric_col = <<"x">>

(* C18: with the roles the three selectors returned for a cleaned table,   *)
(* compute_kpis does not end in an exception, and it returns what it       *)
(* returns with a role unset plus only the entries that depend on that     *)
(* role: unsetting the date removes Date range and Change, unsetting the   *)
(* metric removes Total, Average and Change, nothing else changes.         *)
DependsOnDate(entry) == LabelRank(entry[1]) \in {1, 4}

DependsOnMetric(entry) == LabelRank(entry[1]) \in {2, 3, 4}

Independent(entry) == ~DependsOnDate(entry)

NotOfMetric(entry) == ~DependsOnMetric(entry)

C18_NoErrorUnsetRoles ==
    /\ pc # "kpis_raised"
    /\ pc = "kpis" =>
          /\ SelectSeq(kpis, Independent) = compute_kpis(df, None, metric_col)
          /\ SelectSeq(kpis, NotOfMetric) = compute_kpis(df, date_col, None)

(* no date column: the KPIs are Rows, Columns, Total and Average *)
C18_Witness ==
    /\ pc = "kpis"
    /\ date_col = None /\ metric_col # None /\ category_col # None
    /\ Len(kpis) = 4
    /\ LabelRank(kpis[3][1]) = 2

(* C19 (as claimed): whenever a category column is selected, the aggregate *)
(* that build_category_chart colours has at least one group and the chart  *)
(* is built without a division by zero, also when a metric is selected and *)
(* no row holds both a category and a metric value.                        *)
C19_CategoryChartCompletes ==
    /\ pc # "category_raised"
    /\ (pc = "charts" /\ category_col # None) => Len(fig_cat) >= 1

(* C20: the series of the trend has one entry for every period (month, or  *)
(* week of the resampling) from the period of the earliest row to the      *)
(* period of the latest row, in increasing order without a gap; an entry's *)
(* aggregate is the sum over the rows of its period, 0 when it has none.   *)
(* So the previous bucket is the period just before the last one, and the  *)
(* Change value is the placeholder whenever that period holds no row.  The *)
(* same holds of the series the trend chart plots.                         *)
PeriodRows(freq, start) ==
    IF freq = "MS" THEN RowsDated(start, NextMonth(start) - 1)
    ELSE RowsDated(start - 6, start)

Gapless(freq, s) ==
    /\ PeriodRows(freq, s[1].start) # {}
    /\ PeriodRows(freq, s[Len(s)].start) # {}
    /\ \A b \in 1..(Len(s) - 1) :
          s[b + 1].start = IF freq = "MS" THEN NextMonth(s[b].start) ELSE s[b].start + 7
    /\ \A b \in 1..Len(s) : s[b].sum = MetricSum(PeriodRows(freq, s[b].start))
    /\ BothPresent(df, date_col, metric_col)
          = UNION {PeriodRows(freq, s[b].start) : b \in 1..Len(s)}

SpanFreq == IF Max(TrendDates) - Min(TrendDates) >= 60 THEN "MS" ELSE "W-MON"

C20_EveryPeriod ==
    /\ TrendComputed =>
          LET s == Resample(df, date_col, metric_col)
          IN  /\ Gapless(SpanFreq, s)
              /\ (Len(s) >= 2 /\ PeriodRows(SpanFreq, s[Len(s) - 1].start) = {}) =>
                    \E i \in 1..Len(kpis) :
                        kpis[i] = << <<"Change vs prev period">>, Dash >>
    /\ (/\ pc = "trend"
        /\ date_col # None /\ metric_col # None
        /\ BothPresent(df, date_col, metric_col) # {})
       => Gapless(SpanFreq, fig_trend)

(* two weeks with rows and an empty week between them *)
C20_Witness ==
    /\ TrendComputed
    /\ LET s == Resample(df, date_col, metric_col)
       IN  /\ Len(s) = 3
           /\ PeriodRows(SpanFreq, s[2].start) = {}
           /\ s[1].sum # 0 /\ s[3].sum # 0
    /\ \E i \in 1..Len(kpis) : kpis[i] = << <<"Change vs prev period">>, Dash >>

====
